---- MODULE Spec2Model ----
(***************************************************************************)
(* Shader hot-reload subsystem of gogl: the watch list of shader files     *)
(* (LoadedShaders), the program registry (LoadedPrograms), MakeProgram and *)
(* HotloadShaders, run by one host thread against a filesystem that an     *)
(* external editor writes to at any moment, and against the OpenGL object  *)
(* store (program and shader objects).                                     *)
(***************************************************************************)
EXTENDS Integers, Sequences, FiniteSets, TLC

\* ---------------------------------------------------------------- bounds
MaxEdits == 2         \* saves and removals of shader files by the editor
MaxProg == 4          \* program objects ever created by gl.CreateProgram
MaxShader == 6        \* shader objects alive at one time

Names == {"p1", "p2"}
Paths == {"v", "fa", "fb"}
\* the MakeProgram calls the host makes: <<name, vertex path, fragment path>>
Registrations == {<<"p1", "v", "fa">>, <<"p1", "v", "fb">>, <<"p2", "v", "fb">>}
\* sprites of the animation model: ticks per frame and frames per animation
MaxSpeed == 5
MaxFrames == 4

\* what a file's text does in the GL compiler and linker
Kinds == {"good", "compileErr", "linkErr"}

VARIABLES
    fs,                 \* filesystem: path -> [mod, kind, exists]
    LoadedShaders,      \* watch list: sequence of [FilePath, LastModified]
    LoadedPrograms,     \* registry: name -> the Program record the map points to:
                        \* [ID, VertexShaderFilePath, FragmentShaderFilePath], and ptr, its address
    glPrograms,         \* GL program objects, index = ProgramID
    glShaders,          \* GL shader objects alive (set of ShaderID)
    pc,                 \* position of the host thread
    frame,              \* locals of the running MakeProgram / ReloadProgram
    changedShaderFiles, \* result of the last GetChangedShaderFiles
    pending,            \* programs the range loop of HotloadShaders has not visited
    haltCause,          \* which panic stopped the process
    ret,                \* what the last MakeProgram called by the host returned
    pollStatus,         \* history: "none", "running", "returned"
    handleBefore,       \* history: name -> ID at the start of the current poll
    attempts,           \* history: name -> MakeProgram calls in the current poll
    outcome,            \* history: name -> result of the rebuild in the current poll
    dirty,              \* history: path -> mtime changed since it was last stat'ed
    failed,             \* history: programs whose last rebuild in a poll failed
    upToDate,           \* history: name -> the handle was built from what its two files hold now
    held,               \* name -> the *Program MakeProgram returned to the host (0: none)
    sprite              \* a Sprite: [AnimationFrames, AnimationSpeed, TickCount, CurrentFrame]

vars == <<fs, LoadedShaders, LoadedPrograms, glPrograms, glShaders, pc, frame,
          changedShaderFiles, pending, haltCause, ret, pollStatus,
          handleBefore, attempts, outcome, dirty, failed, held, sprite, upToDate>>

hist == <<pollStatus, handleBefore, attempts, outcome>>

NoFrame == [name |-> "", vpath |-> "", fpath |-> "", vsh |-> 0, fsh |-> 0,
            vsrc |-> 0, fsrc |-> 0, linkable |-> TRUE, programID |-> 0,
            caller |-> "none", oldID |-> 0]

\* ---------------------------------------------------------------- helpers
Min(S) == CHOOSE x \in S : \A y \in S : x <= y

Count(s, x) == Cardinality({i \in 1..Len(s) : s[i] = x})

InSeq(s, x) == \E i \in 1..Len(s) : s[i] = x

\* a lookup that takes every path for watched already
shaderIsInWatchList_Always(path) == TRUE

\* a lookup that never finds the path
shaderIsInWatchList_Never(path) == FALSE

\* hotloading.go: shaderIsInWatchList
shaderIsInWatchList(path) ==
    \E i \in 1..Len(LoadedShaders) : LoadedShaders[i].FilePath = path

\* gl.CreateShader: a name that no live shader object has
CreateShader == Min((1..MaxShader) \ glShaders)

\* a comparison that takes every file for changed
Changed_Always(modTime, lastModified) == TRUE

\* hotloading.go:105  changed := !file.ModTime().Equal(LastModified)
Changed(modTime, lastModified) == modTime # lastModified

\* a watch-list entry that keeps the zero time instead of the file's
NewShaderFileInfo_ZeroTime(path, modTime) == [FilePath |-> path, LastModified |-> 0]

\* hotloading.go:137-140  the ShaderFileInfo a newly watched path gets
NewShaderFileInfo(path, modTime) == [FilePath |-> path, LastModified |-> modTime]

\* gl.LinkProgram + CheckProgramLinkSuccess: the LINK_STATUS of the two sources
LinkSucceeds(vkind, fkind) == vkind # "linkErr" /\ fkind # "linkErr"

\* hotloading.go:64-73  needsRebuilding
NeedsRebuilding(program, changed) ==
    \E i \in 1..Len(changed) :
        \/ changed[i] = program.VertexShaderFilePath
        \/ changed[i] = program.FragmentShaderFilePath

\* program.go:67  &Program{...}: the address of a new record, which no record
\* of the registry has
NewProgramRecord(programs) == Cardinality(DOMAIN programs) + 1

\* bookkeeping that puts a new record in the map where the entry exists
RegistryUpdate_Reallocates(programs, programName, programID, vertexShaderPath, fragmentShaderPath) ==
    IF programName \notin DOMAIN programs
    THEN programs @@ (programName :>
            [ID |-> programID,
             VertexShaderFilePath |-> vertexShaderPath,
             FragmentShaderFilePath |-> fragmentShaderPath,
             ptr |-> NewProgramRecord(programs)])
    ELSE [programs EXCEPT ![programName] =
            [ID |-> programID,
             VertexShaderFilePath |-> @.VertexShaderFilePath,
             FragmentShaderFilePath |-> @.FragmentShaderFilePath,
             ptr |-> @.ptr + Cardinality(Names)]]

\* bookkeeping that forgets to store the new id in an existing entry
RegistryUpdate_KeepsID(programs, programName, programID, vertexShaderPath, fragmentShaderPath) ==
    IF programName \notin DOMAIN programs
    THEN programs @@ (programName :>
            [ID |-> programID,
             VertexShaderFilePath |-> vertexShaderPath,
             FragmentShaderFilePath |-> fragmentShaderPath,
             ptr |-> NewProgramRecord(programs)])
    ELSE programs

\* program.go:63-75  the registry after MakeProgram's bookkeeping
RegistryUpdate(programs, programName, programID, vertexShaderPath, fragmentShaderPath) ==
    IF programName \notin DOMAIN programs
    THEN programs @@ (programName :>
            [ID |-> programID,
             VertexShaderFilePath |-> vertexShaderPath,
             FragmentShaderFilePath |-> fragmentShaderPath,
             ptr |-> NewProgramRecord(programs)])
    ELSE [programs EXCEPT ![programName].ID = programID]

\* a scan that reports a changed file without storing its new time
RECURSIVE ScanFrom_NoStore(_, _, _)
ScanFrom_NoStore(i, shaders, changed) ==
    IF i > Len(shaders)
    THEN [shaders |-> shaders, changed |-> changed, err |-> FALSE, upto |-> i - 1]
    ELSE LET p == shaders[i].FilePath IN
         IF ~fs[p].exists
         THEN [shaders |-> shaders, changed |-> changed, err |-> TRUE, upto |-> i - 1]
         ELSE IF Changed(fs[p].mod, shaders[i].LastModified)
              THEN ScanFrom_NoStore(i + 1, shaders, Append(changed, p))
              ELSE ScanFrom_NoStore(i + 1, shaders, changed)

\* a scan that puts a changed file in front of the list instead of at its end
RECURSIVE ScanFrom_Prepend(_, _, _)
ScanFrom_Prepend(i, shaders, changed) ==
    IF i > Len(shaders)
    THEN [shaders |-> shaders, changed |-> changed, err |-> FALSE, upto |-> i - 1]
    ELSE LET p == shaders[i].FilePath IN
         IF ~fs[p].exists
         THEN [shaders |-> shaders, changed |-> changed, err |-> TRUE, upto |-> i - 1]
         ELSE IF Changed(fs[p].mod, shaders[i].LastModified)
              THEN ScanFrom_Prepend(i + 1,
                            [shaders EXCEPT ![i].LastModified = fs[p].mod],
                            <<p>> \o changed)
              ELSE ScanFrom_Prepend(i + 1, shaders, changed)

\* a scan that skips a file it cannot stat instead of panicking
RECURSIVE ScanFrom_SkipMissing(_, _, _)
ScanFrom_SkipMissing(i, shaders, changed) ==
    IF i > Len(shaders)
    THEN [shaders |-> shaders, changed |-> changed, err |-> FALSE, upto |-> i - 1]
    ELSE LET p == shaders[i].FilePath IN
         IF ~fs[p].exists
         THEN ScanFrom_SkipMissing(i + 1, shaders, changed)
         ELSE IF Changed(fs[p].mod, shaders[i].LastModified)
              THEN ScanFrom_SkipMissing(i + 1,
                            [shaders EXCEPT ![i].LastModified = fs[p].mod],
                            Append(changed, p))
              ELSE ScanFrom_SkipMissing(i + 1, shaders, changed)

\* hotloading.go:97-115  GetChangedShaderFiles loop from index i on; err is the panic
RECURSIVE ScanFrom(_, _, _)
ScanFrom(i, shaders, changed) ==
    IF i > Len(shaders)
    THEN [shaders |-> shaders, changed |-> changed, err |-> FALSE, upto |-> i - 1]
    ELSE LET p == shaders[i].FilePath IN
         IF ~fs[p].exists
         THEN [shaders |-> shaders, changed |-> changed, err |-> TRUE, upto |-> i - 1]
         ELSE IF Changed(fs[p].mod, shaders[i].LastModified)
              THEN ScanFrom(i + 1,
                            [shaders EXCEPT ![i].LastModified = fs[p].mod],
                            Append(changed, p))
              ELSE ScanFrom(i + 1, shaders, changed)

GetChangedShaderFiles == ScanFrom(1, LoadedShaders, <<>>)

\* ---------------------------------------------------------------- initial state
\* a sprite with one frame
StillSprite == [AnimationFrames |-> <<1>>, AnimationSpeed |-> 1,
                TickCount |-> 0, CurrentFrame |-> 0]

\* no program registered, no shader watched
InitHotload ==
    /\ fs = [p \in Paths |-> [mod |-> 1, kind |-> "good", exists |-> TRUE]]
    /\ LoadedShaders = <<>>
    /\ LoadedPrograms = <<>>
    /\ glPrograms = <<>>
    /\ glShaders = {}
    /\ pc = "idle"
    /\ frame = NoFrame
    /\ changedShaderFiles = <<>>
    /\ pending = {}
    /\ haltCause = "none"
    /\ ret = "none"
    /\ pollStatus = "none"
    /\ handleBefore = [n \in Names |-> 0]
    /\ attempts = [n \in Names |-> 0]
    /\ outcome = [n \in Names |-> "none"]
    /\ dirty = [p \in Paths |-> FALSE]
    /\ failed = {}
    /\ upToDate = [n \in Names |-> FALSE]
    /\ held = [n \in Names |-> 0]

Init ==
    /\ InitHotload
    /\ sprite = StillSprite

\* ---------------------------------------------------------------- environment
RECURSIVE SumOver(_, _)
SumOver(S, f) ==
    IF S = {} THEN 0
    ELSE LET x == CHOOSE y \in S : TRUE IN f[x] + SumOver(S \ {x}, f)

\* saves and removals so far: every save adds one to the file's mod
Edits == SumOver(Paths, [p \in Paths |-> (fs[p].mod - 1) + (IF fs[p].exists THEN 0 ELSE 1)])

\* The editor runs beside the host thread.  An edit of p matters to the host
\* only through the next step that reads p, so it is taken where such a step
\* is next: before a host call, between the scan of a poll and a rebuild's
\* read of p, and between LoadShader's read of p and its stat of p.  An edit
\* at any other position is the same edit made at the next of these.
EditSeenNext(p) ==
    \/ pc = "idle"
    \/ pc = "loadV" /\ frame.caller = "reload" /\ p = frame.vpath
    \/ pc = "loadF" /\ frame.caller = "reload" /\ p = frame.fpath
    \/ pc = "statV" /\ p = frame.vpath
    \/ pc = "statF" /\ p = frame.fpath

\* p is one of the two paths the registry entry of program n stores
IsSourceOf(p, n) ==
    /\ n \in DOMAIN LoadedPrograms
    /\ p \in {LoadedPrograms[n].VertexShaderFilePath,
              LoadedPrograms[n].FragmentShaderFilePath}

\* an editor saves a shader file: new text, later modification time
WriteFile(p, k) ==
    /\ EditSeenNext(p)
    /\ fs[p].exists
    /\ Edits < MaxEdits
    /\ fs' = [fs EXCEPT ![p] = [mod |-> fs[p].mod + 1, kind |-> k, exists |-> TRUE]]
    /\ dirty' = [dirty EXCEPT ![p] = TRUE]
    /\ upToDate' = [n \in Names |-> upToDate[n] /\ ~IsSourceOf(p, n)]
    /\ UNCHANGED <<LoadedShaders, LoadedPrograms, glPrograms, glShaders, pc, frame,
                   changedShaderFiles, pending, haltCause, ret, hist,
                   failed, held, sprite>>

\* a shader file is removed from disk
DeleteFile(p) ==
    /\ EditSeenNext(p)
    /\ fs[p].exists
    /\ Edits < MaxEdits
    /\ fs' = [fs EXCEPT ![p] = [mod |-> fs[p].mod, kind |-> "good", exists |-> FALSE]]
    /\ UNCHANGED <<LoadedShaders, LoadedPrograms, glPrograms, glShaders, pc, frame,
                   changedShaderFiles, pending, haltCause, ret, hist, dirty,
                   failed, held, sprite, upToDate>>

\* ---------------------------------------------------------------- control
\* a panic: the process stops where it is
Panic(cause) ==
    /\ pc' = "halted"
    /\ haltCause' = cause

\* the range loop of HotloadShaders goes on with the programs in rest,
\* and HotloadShaders returns when there is none
RangeContinue(rest) ==
    /\ pending' = rest
    /\ pc' = IF rest = {} THEN "idle" ELSE "range"
    /\ pollStatus' = IF rest = {} THEN "returned" ELSE "running"
    /\ frame' = NoFrame
    /\ haltCause' = haltCause

\* a MakeProgram that hands its caller nil where it should hand err
ReturnErr_Swallows(which) ==
    IF frame.caller = "host"
    THEN /\ pc' = "idle"
         /\ ret' = "ok"
         /\ frame' = NoFrame
         /\ UNCHANGED <<pending, haltCause, hist, failed>>
    ELSE /\ RangeContinue(pending)
         /\ outcome' = [outcome EXCEPT ![frame.name] = "ok"]
         /\ UNCHANGED <<ret, handleBefore, attempts, failed>>

\* MakeProgram returns err (program.go:40, 44): to the host, or to
\* ReloadProgram, which logs and returns it to HotloadShaders (hotloading.go:83-87, 52-57)
ReturnErr(which) ==
    IF frame.caller = "host"
    THEN /\ pc' = "idle"
         /\ ret' = "err"
         /\ frame' = NoFrame
         /\ UNCHANGED <<pending, haltCause, hist, failed>>
    ELSE /\ RangeContinue(pending)
         /\ outcome' = [outcome EXCEPT ![frame.name] = which]
         /\ failed' = failed \cup {frame.name}
         /\ UNCHANGED <<ret, handleBefore, attempts>>

\* ---------------------------------------------------------------- MakeProgram
\* the host calls MakeProgram(programName, vertexShaderPath, fragmentShaderPath)
CallMakeProgram(programName, vertexShaderPath, fragmentShaderPath) ==
    /\ pc = "idle"
    /\ Len(glPrograms) + 1 <= MaxProg
    /\ Cardinality(glShaders) + 2 <= MaxShader
    /\ pc' = "loadV"
    /\ frame' = [NoFrame EXCEPT !.name = programName,
                                !.vpath = vertexShaderPath,
                                !.fpath = fragmentShaderPath,
                                !.caller = "host"]
    /\ ret' = "none"
    /\ pollStatus' = "none"
    /\ handleBefore' = [n \in Names |-> 0]
    /\ attempts' = [n \in Names |-> 0]
    /\ outcome' = [n \in Names |-> "none"]
    /\ changedShaderFiles' = <<>>
    /\ UNCHANGED <<fs, LoadedShaders, LoadedPrograms, glPrograms, glShaders,
                   pending, haltCause, dirty, failed, held, sprite, upToDate>>

\* LoadShader up to MakeShader's return (hotloading.go:117-127, gogl.go:138-162):
\* read the file, create and compile the shader
LoadShaderRead ==
    /\ pc \in {"loadV", "loadF"}
    /\ LET isV == pc = "loadV"
           path == IF isV THEN frame.vpath ELSE frame.fpath
           shaderId == CreateShader
       IN
       IF ~fs[path].exists
       THEN /\ Panic("readfile")
            /\ UNCHANGED <<glShaders, frame, pending, ret, hist, failed>>
       ELSE /\ glShaders' = glShaders \cup {shaderId}
            /\ IF fs[path].kind = "compileErr"
               THEN ReturnErr(IF isV THEN "vcompile" ELSE "fcompile")
               ELSE /\ frame' = IF isV
                                THEN [frame EXCEPT !.vsh = shaderId, !.vsrc = fs[path].mod,
                                                   !.linkable = LinkSucceeds(fs[path].kind, "good")]
                                ELSE [frame EXCEPT !.fsh = shaderId, !.fsrc = fs[path].mod,
                                                   !.linkable = frame.linkable
                                                       /\ LinkSucceeds("good", fs[path].kind)]
                    /\ pc' = IF ~shaderIsInWatchList(path)
                             THEN (IF isV THEN "statV" ELSE "statF")
                             ELSE (IF isV THEN "loadF" ELSE "link")
                    /\ UNCHANGED <<pending, haltCause, ret, hist, failed>>
    /\ UNCHANGED <<fs, LoadedShaders, LoadedPrograms, glPrograms,
                   changedShaderFiles, dirty, held, sprite, upToDate>>

\* LoadShader's watch-list part (hotloading.go:129-144): stat the file, append
LoadShaderStat ==
    /\ pc \in {"statV", "statF"}
    /\ LET isV == pc = "statV"
           path == IF isV THEN frame.vpath ELSE frame.fpath
       IN
       IF ~fs[path].exists
       THEN /\ Panic("stat")
            /\ UNCHANGED <<LoadedShaders, dirty>>
       ELSE /\ LoadedShaders' = Append(LoadedShaders, NewShaderFileInfo(path, fs[path].mod))
            /\ dirty' = [dirty EXCEPT ![path] = FALSE]
            /\ pc' = IF isV THEN "loadF" ELSE "link"
            /\ UNCHANGED haltCause
    /\ UNCHANGED <<fs, LoadedPrograms, glPrograms, glShaders, frame,
                   changedShaderFiles, pending, ret, hist, failed, held, sprite, upToDate>>

\* a MakeProgram that stores the new id before it has checked the link
LinkStep_StoreFirst ==
    /\ pc = "link"
    /\ LET programID == Len(glPrograms) + 1 IN
       /\ LoadedPrograms' = RegistryUpdate(LoadedPrograms, frame.name, programID,
                                           frame.vpath, frame.fpath)
       /\ IF frame.linkable
          THEN /\ glPrograms' = Append(glPrograms,
                       [status |-> "linked", deletes |-> 0])
               /\ frame' = [frame EXCEPT !.programID = programID]
               /\ pc' = "commit"
               /\ UNCHANGED <<haltCause, outcome, failed>>
          ELSE /\ glPrograms' = Append(glPrograms,
                       [status |-> "linkfailed", deletes |-> 0])
               /\ Panic("link")
               /\ outcome' = IF frame.caller = "reload"
                             THEN [outcome EXCEPT ![frame.name] = "link"]
                             ELSE outcome
               /\ failed' = IF frame.caller = "reload"
                            THEN failed \cup {frame.name}
                            ELSE failed
               /\ UNCHANGED frame
    /\ UNCHANGED <<fs, LoadedShaders, glShaders, changedShaderFiles,
                   pending, ret, pollStatus, handleBefore, attempts, dirty,
                   held, sprite, upToDate>>

\* program.go:47-57: create the program, attach, link, panic if the link failed
LinkStep ==
    /\ pc = "link"
    /\ LET programID == Len(glPrograms) + 1 IN
       IF frame.linkable
       THEN /\ glPrograms' = Append(glPrograms,
                    [status |-> "linked", deletes |-> 0])
            /\ frame' = [frame EXCEPT !.programID = programID]
            /\ pc' = "commit"
            /\ UNCHANGED <<haltCause, outcome, failed>>
       ELSE /\ glPrograms' = Append(glPrograms,
                    [status |-> "linkfailed", deletes |-> 0])
            /\ Panic("link")
            /\ outcome' = IF frame.caller = "reload"
                          THEN [outcome EXCEPT ![frame.name] = "link"]
                          ELSE outcome
            /\ failed' = IF frame.caller = "reload"
                         THEN failed \cup {frame.name}
                         ELSE failed
            /\ UNCHANGED frame
    /\ UNCHANGED <<fs, LoadedShaders, LoadedPrograms, glShaders, changedShaderFiles,
                   pending, ret, pollStatus, handleBefore, attempts, dirty,
                   held, sprite, upToDate>>

\* the program MakeProgram has linked was compiled from the text that the two
\* files named by the entry hold now (program.go:38-51 read and compiled them)
BuiltFromCurrent(entry) ==
    /\ frame.vpath = entry.VertexShaderFilePath
    /\ frame.fpath = entry.FragmentShaderFilePath
    /\ fs[frame.vpath].exists /\ frame.vsrc = fs[frame.vpath].mod
    /\ fs[frame.fpath].exists /\ frame.fsrc = fs[frame.fpath].mod

\* program.go:59-79: delete the two shaders, record the program, return it
CommitStep ==
    /\ pc = "commit"
    /\ glShaders' = glShaders \ {frame.vsh, frame.fsh}
    /\ LoadedPrograms' = RegistryUpdate(LoadedPrograms, frame.name, frame.programID,
                                        frame.vpath, frame.fpath)
    /\ upToDate' = [upToDate EXCEPT ![frame.name] = BuiltFromCurrent(LoadedPrograms'[frame.name])]
    /\ IF frame.caller = "host"
       THEN /\ pc' = "idle"
            /\ ret' = "ok"
            /\ frame' = NoFrame
            /\ held' = [held EXCEPT ![frame.name] = LoadedPrograms'[frame.name].ptr]
            /\ UNCHANGED outcome
       ELSE /\ pc' = "deleteOld"
            /\ outcome' = [outcome EXCEPT ![frame.name] = "ok"]
            /\ UNCHANGED <<ret, frame, held>>
    /\ UNCHANGED <<fs, LoadedShaders, glPrograms, changedShaderFiles, pending,
                   haltCause, pollStatus, handleBefore, attempts, dirty,
                   failed, sprite>>

\* ---------------------------------------------------------------- hot reload
\* a ReloadProgram that deletes the program it has just built
ProgramToDelete_New(oldProgramID, newProgramID) == newProgramID

\* hotloading.go:89-90: which program object ReloadProgram deletes after a rebuild
ProgramToDelete(oldProgramID, newProgramID) == oldProgramID

\* gl.DeleteProgram
DeleteProgram(programs, id) ==
    [programs EXCEPT ![id] = [status |-> "deleted",
                              deletes |-> programs[id].deletes + 1]]

\* hotloading.go:41-49: HotloadShaders up to the range loop
HotloadShaders ==
    /\ pc = "idle"
    /\ Len(glPrograms) + Cardinality(DOMAIN LoadedPrograms) <= MaxProg
    /\ Cardinality(glShaders) + 2 * Cardinality(DOMAIN LoadedPrograms) <= MaxShader
    /\ LET scan == GetChangedShaderFiles
           seen == {LoadedShaders[i].FilePath : i \in 1..scan.upto}
       IN
       /\ LoadedShaders' = scan.shaders
       /\ dirty' = [p \in Paths |-> IF p \in seen THEN FALSE ELSE dirty[p]]
       /\ handleBefore' = [n \in Names |->
                             IF n \in DOMAIN LoadedPrograms THEN LoadedPrograms[n].ID ELSE 0]
       /\ attempts' = [n \in Names |-> 0]
       /\ outcome' = [n \in Names |-> "none"]
       /\ frame' = NoFrame
       /\ IF scan.err
          THEN /\ Panic("scanstat")
               /\ pollStatus' = "running"
               /\ UNCHANGED <<changedShaderFiles, pending>>
          ELSE /\ changedShaderFiles' = scan.changed
               /\ haltCause' = haltCause
               /\ IF Len(scan.changed) > 0 /\ DOMAIN LoadedPrograms # {}
                  THEN /\ pc' = "range"
                       /\ pending' = DOMAIN LoadedPrograms
                       /\ pollStatus' = "running"
                  ELSE /\ pc' = "idle"
                       /\ pending' = {}
                       /\ pollStatus' = "returned"
    /\ ret' = "none"
    /\ UNCHANGED <<fs, LoadedPrograms, glPrograms, glShaders, failed, held, sprite, upToDate>>

\* a ReloadProgram that deletes the old program before it builds the new one
ReloadProgram_DeleteFirst(programName) ==
    /\ pc = "range"
    /\ programName \in pending
    /\ LET storedProgram == LoadedPrograms[programName] IN
       IF NeedsRebuilding(storedProgram, changedShaderFiles)
       THEN /\ frame' = [NoFrame EXCEPT !.name = programName,
                                        !.vpath = storedProgram.VertexShaderFilePath,
                                        !.fpath = storedProgram.FragmentShaderFilePath,
                                        !.caller = "reload",
                                        !.oldID = storedProgram.ID]
            /\ attempts' = [attempts EXCEPT ![programName] = @ + 1]
            /\ pending' = pending \ {programName}
            /\ pc' = "loadV"
            /\ glPrograms' = DeleteProgram(glPrograms, storedProgram.ID)
            /\ failed' = failed \ {programName}
            /\ UNCHANGED <<haltCause, pollStatus>>
       ELSE /\ RangeContinue(pending \ {programName})
            /\ UNCHANGED <<attempts, glPrograms, failed>>
    /\ UNCHANGED <<fs, LoadedShaders, LoadedPrograms, glShaders,
                   changedShaderFiles, ret, handleBefore, outcome, dirty,
                   held, sprite, upToDate>>

\* hotloading.go:50-51, 62-82: the loop takes a program (map order is arbitrary)
\* and ReloadProgram runs up to its call of MakeProgram
ReloadProgram(programName) ==
    /\ pc = "range"
    /\ programName \in pending
    /\ LET storedProgram == LoadedPrograms[programName] IN
       IF NeedsRebuilding(storedProgram, changedShaderFiles)
       THEN /\ frame' = [NoFrame EXCEPT !.name = programName,
                                        !.vpath = storedProgram.VertexShaderFilePath,
                                        !.fpath = storedProgram.FragmentShaderFilePath,
                                        !.caller = "reload",
                                        !.oldID = storedProgram.ID]
            /\ attempts' = [attempts EXCEPT ![programName] = @ + 1]
            /\ pending' = pending \ {programName}
            /\ pc' = "loadV"
            /\ failed' = failed \ {programName}
            /\ UNCHANGED <<haltCause, pollStatus>>
       ELSE /\ RangeContinue(pending \ {programName})
            /\ UNCHANGED <<attempts, failed>>
    /\ UNCHANGED <<fs, LoadedShaders, LoadedPrograms, glPrograms, glShaders,
                   changedShaderFiles, ret, handleBefore, outcome, dirty,
                   held, sprite, upToDate>>

\* hotloading.go:89-94: remove the old program, return nil
DeleteOld ==
    /\ pc = "deleteOld"
    /\ glPrograms' = DeleteProgram(glPrograms, ProgramToDelete(frame.oldID, frame.programID))
    /\ RangeContinue(pending)
    /\ UNCHANGED <<fs, LoadedShaders, LoadedPrograms, glShaders, changedShaderFiles,
                   ret, handleBefore, attempts, outcome, dirty, failed, held, sprite, upToDate>>

\* ---------------------------------------------------------------- specification
Next ==
    \/ \E p \in Paths, k \in Kinds : WriteFile(p, k)
    \/ \E p \in Paths : DeleteFile(p)
    \/ \E r \in Registrations : CallMakeProgram(r[1], r[2], r[3])
    \/ LoadShaderRead
    \/ LoadShaderStat
    \/ LinkStep
    \/ CommitStep
    \/ HotloadShaders
    \/ \E n \in Names : ReloadProgram(n)
    \/ DeleteOld

Spec == Init /\ [][Next]_vars

\* ---------------------------------------------------------------- sprites
\* a Sprite.Update that compares the tick count with > instead of >=
Update_LateReset(s) ==
    LET tick == s.TickCount + 1 IN
    IF tick > s.AnimationSpeed
    THEN [s EXCEPT !.TickCount = 0,
                   !.CurrentFrame = IF s.CurrentFrame + 1 >= Len(s.AnimationFrames)
                                    THEN 0 ELSE s.CurrentFrame + 1]
    ELSE [s EXCEPT !.TickCount = tick]

\* sprites.go:56-70  Sprite.Update: the sprite after one call
Update(s) ==
    LET tick == s.TickCount + 1 IN
    IF tick >= s.AnimationSpeed
    THEN [s EXCEPT !.TickCount = 0,
                   !.CurrentFrame = IF s.CurrentFrame + 1 >= Len(s.AnimationFrames)
                                    THEN 0 ELSE s.CurrentFrame + 1]
    ELSE [s EXCEPT !.TickCount = tick]

\* the sprites a host sets up: at least one frame, a speed of at least one tick,
\* the tick count at zero and the current frame one of the frames
Sprites ==
    {[AnimationFrames |-> [i \in 1..n |-> i], AnimationSpeed |-> speed,
      TickCount |-> 0, CurrentFrame |-> c] :
        n \in 1..MaxFrames, speed \in 1..MaxSpeed, c \in 0..(MaxFrames - 1)}

SpriteInit ==
    /\ InitHotload
    /\ sprite \in {s \in Sprites : s.CurrentFrame < Len(s.AnimationFrames)}

\* the main loop calls sprite.Update()
SpriteUpdate ==
    /\ sprite' = Update(sprite)
    /\ UNCHANGED <<fs, LoadedShaders, LoadedPrograms, glPrograms, glShaders, pc, frame,
                   changedShaderFiles, pending, haltCause, ret, hist, dirty,
                   failed, held, upToDate>>

SpriteNext == SpriteUpdate

SpriteSpec == SpriteInit /\ [][SpriteNext]_vars

TypeOK ==
    /\ pc \in {"idle", "loadV", "statV", "loadF", "statF", "link", "commit",
               "range", "deleteOld", "halted"}
    /\ DOMAIN LoadedPrograms \subseteq Names
    /\ Len(glPrograms) <= MaxProg
    /\ glShaders \subseteq 1..MaxShader

\* ---------------------------------------------------------------- properties
Failures == {"vcompile", "fcompile", "link"}

\* the program object with this id is linked and not deleted
Alive(id) == id \in 1..Len(glPrograms) /\ glPrograms[id].status = "linked"

Watched(p) == \E i \in 1..Len(LoadedShaders) : LoadedShaders[i].FilePath = p

\* the current poll is over: HotloadShaders returned, or a panic stopped it
PollOver ==
    \/ pollStatus = "returned"
    \/ pollStatus = "running" /\ pc = "halted"

\* the poll was stopped by a panic of a rebuild, not of the scan
PollReturnedOrLinkHalt ==
    \/ pollStatus = "returned"
    \/ pollStatus = "running" /\ pc = "halted" /\ haltCause = "link"

\* both source files of program n are on disk, unchanged since the scan,
\* compile and link
SourcesGood(n) ==
    LET pr == LoadedPrograms[n] IN
    /\ fs[pr.VertexShaderFilePath].exists
    /\ fs[pr.FragmentShaderFilePath].exists
    /\ ~dirty[pr.VertexShaderFilePath]
    /\ ~dirty[pr.FragmentShaderFilePath]
    /\ fs[pr.VertexShaderFilePath].kind = "good"
    /\ fs[pr.FragmentShaderFilePath].kind = "good"

\* C1: the ID of every LoadedPrograms entry names a program object that was
\* linked successfully and has not been deleted, in every reachable state.
C1_HandleLinkedAndAlive ==
    \A n \in DOMAIN LoadedPrograms : Alive(LoadedPrograms[n].ID)

\* C1 witness: a hot reload has replaced the handle of a program and deleted the old object
C1_Witness ==
    /\ pollStatus = "returned"
    /\ \E n \in DOMAIN LoadedPrograms :
          /\ outcome[n] = "ok"
          /\ LoadedPrograms[n].ID # handleBefore[n]
          /\ glPrograms[handleBefore[n]].status = "deleted"

\* C2: a program whose rebuild failed in the current poll (vertex compile,
\* fragment compile or link error) still has the handle it had when the poll
\* began, and that program object is not deleted.
C2_FailedRebuildKeepsHandle ==
    \A n \in Names :
        outcome[n] \in Failures =>
            /\ n \in DOMAIN LoadedPrograms
            /\ LoadedPrograms[n].ID = handleBefore[n]
            /\ Alive(handleBefore[n])

\* C2 witness: a poll returned after the fragment shader of a program failed to compile
C2_Witness ==
    /\ pollStatus = "returned"
    /\ \E n \in DOMAIN LoadedPrograms : outcome[n] = "fcompile"

\* C3: once the rebuild of a program has succeeded and ReloadProgram is through
\* with it, its handle differs from the one before the poll, DeleteProgram was
\* called exactly once on the old handle and never on the new one.
C3_SuccessSwapsAndDeletesOldOnce ==
    \A n \in Names :
        (outcome[n] = "ok" /\ ~(pc = "deleteOld" /\ frame.name = n)) =>
            /\ LoadedPrograms[n].ID # handleBefore[n]
            /\ glPrograms[handleBefore[n]].deletes = 1
            /\ glPrograms[LoadedPrograms[n].ID].deletes = 0
            /\ Alive(LoadedPrograms[n].ID)

\* C3 witness: a poll returned in which both registered programs were rebuilt
C3_Witness ==
    /\ pollStatus = "returned"
    /\ \A n \in Names : outcome[n] = "ok" /\ glPrograms[handleBefore[n]].deletes = 1

\* C4 (as claimed): no compile or link error of a rebuild stops the poll: a
\* poll that was halted was never halted by a compile or link error.
C4_RebuildErrorNeverHalts ==
    (pollStatus = "running" /\ pc = "halted") => haltCause \notin {"compile", "link"}

\* C5 (as claimed): when a poll is over and the rebuild of one program failed in
\* it, every other affected program whose sources compile and link has a new handle.
C5_FailureDoesNotBlockOthers ==
    PollOver =>
        \A m, n \in DOMAIN LoadedPrograms :
            ( /\ m # n
              /\ outcome[m] \in Failures
              /\ NeedsRebuilding(LoadedPrograms[n], changedShaderFiles)
              /\ outcome[n] \notin Failures
              /\ SourcesGood(n) )
            => LoadedPrograms[n].ID # handleBefore[n]

\* C6 (as claimed): when a poll is over, MakeProgram was called exactly once for
\* every registered program with a path in the changed-file list of that poll,
\* and not at all for any other program.
C6_OneAttemptPerAffectedProgram ==
    PollReturnedOrLinkHalt =>
        \A n \in Names :
            attempts[n] = IF /\ n \in DOMAIN LoadedPrograms
                             /\ NeedsRebuilding(LoadedPrograms[n], changedShaderFiles)
                          THEN 1 ELSE 0

\* the scan of this step ran to its end
ScanCompleted == HotloadShaders /\ haltCause' # "scanstat"

\* C7: a scan lists exactly once every watched path whose modification time
\* changed since it was last stat'ed, and does not list a path that the
\* previous scan listed and that was not written since.
C7_ChangeReportedOnce ==
    [][ScanCompleted =>
          \A p \in Paths : Watched(p) =>
              /\ dirty[p] => Count(changedShaderFiles', p) = 1
              /\ (InSeq(changedShaderFiles, p) /\ ~dirty[p])
                     => ~InSeq(changedShaderFiles', p)]_vars

\* C7 witness: an earlier poll reported fa and rebuilt the first program; the
\* poll that has just returned found fa with the stored time and reported nothing
C7_Witness ==
    /\ pollStatus = "returned"
    /\ changedShaderFiles = <<>>
    /\ fs["fa"].mod = 2
    /\ \E i \in 1..Len(LoadedShaders) :
          LoadedShaders[i].FilePath = "fa" /\ LoadedShaders[i].LastModified = 2
    /\ Len(glPrograms) = 2
    /\ glPrograms[1].status = "deleted"
    /\ "p1" \in DOMAIN LoadedPrograms /\ LoadedPrograms["p1"].ID = 2
    /\ \A p \in Paths : fs[p].mod = IF p = "fa" THEN 2 ELSE 1

\* C8: a scan does not list a watched path whose modification time has not
\* changed since the path was last stat'ed (by the previous scan, or by
\* LoadShader when the path was put on the watch list).
C8_UnchangedNotReported ==
    [][ScanCompleted =>
          \A p \in Paths : (Watched(p) /\ ~dirty[p]) => ~InSeq(changedShaderFiles', p)]_vars

\* C8 witness: a poll reported fa and did not report the watched, unwritten v
C8_Witness ==
    /\ pollStatus = "returned"
    /\ changedShaderFiles = <<"fa">>
    /\ Watched("v")
    /\ fs["v"].mod = 1

\* no watched file was written or removed since it was last stat'ed
NothingChanged ==
    \A p \in Paths : Watched(p) => (fs[p].exists /\ ~dirty[p])

\* C9: a HotloadShaders call with no changed watched file returns at once,
\* creates and deletes no GL object and leaves registry and watch list as they were.
C9_NoChangeNoWork ==
    [][(HotloadShaders /\ NothingChanged) =>
          /\ pc' = "idle"
          /\ pollStatus' = "returned"
          /\ changedShaderFiles' = <<>>
          /\ UNCHANGED <<glPrograms, glShaders, LoadedPrograms, LoadedShaders>>]_vars

\* C9 witness: a poll over two registered programs returned with nothing to do
C9_Witness ==
    /\ pollStatus = "returned"
    /\ changedShaderFiles = <<>>
    /\ DOMAIN LoadedPrograms = Names
    /\ \A n \in Names : attempts[n] = 0 /\ LoadedPrograms[n].ID = handleBefore[n]
    /\ \A p \in Paths : ~dirty[p]

\* the step in which a MakeProgram called by the host for an unregistered name
\* meets a compile error
InitialCompileFailure ==
    /\ LoadShaderRead
    /\ frame.caller = "host"
    /\ frame.name \notin DOMAIN LoadedPrograms
    /\ LET path == IF pc = "loadV" THEN frame.vpath ELSE frame.fpath
       IN fs[path].exists /\ fs[path].kind = "compileErr"

\* the step in which a MakeProgram called by the host for an unregistered name
\* meets a link error
InitialLinkFailure ==
    /\ LinkStep
    /\ frame.caller = "host"
    /\ frame.name \notin DOMAIN LoadedPrograms
    /\ ~frame.linkable

\* C10 (as claimed): every failure of an initial MakeProgram, by a compile or a
\* link error, is returned to the host as an error and creates no registry entry.
C10_InitialFailureReturned ==
    [][(InitialCompileFailure \/ InitialLinkFailure) =>
          /\ pc' = "idle"
          /\ ret' = "err"
          /\ frame.name \notin DOMAIN LoadedPrograms']_vars

\* C10 (amended): a compile error of an initial MakeProgram is returned to the
\* host as an error, a link error panics inside MakeProgram and returns
\* nothing; in both cases no registry entry is created.
C10_InitialFailureReturnedOrPanics ==
    [][/\ InitialCompileFailure =>
             /\ pc' = "idle"
             /\ ret' = "err"
             /\ frame.name \notin DOMAIN LoadedPrograms'
       /\ InitialLinkFailure =>
             /\ pc' = "halted"
             /\ haltCause' = "link"
             /\ ret' = "none"
             /\ frame.name \notin DOMAIN LoadedPrograms']_vars

\* C10 witness: the first MakeProgram of the process returned a compile error
C10_Witness ==
    /\ pc = "idle"
    /\ ret = "err"
    /\ DOMAIN LoadedPrograms = {}
    /\ glPrograms = <<>>

\* the step in which a MakeProgram called by the host for a registered name
\* succeeds and does its bookkeeping
ReRegistrationCommit ==
    /\ CommitStep
    /\ frame.caller = "host"
    /\ frame.name \in DOMAIN LoadedPrograms

\* C11 (as claimed): after a successful MakeProgram(name, v2, f2) for a
\* registered name the entry holds the new handle and the paths v2 and f2.
C11_ReRegistrationReplacesPaths ==
    [][ReRegistrationCommit =>
          /\ LoadedPrograms'[frame.name].ID = frame.programID
          /\ LoadedPrograms'[frame.name].VertexShaderFilePath = frame.vpath
          /\ LoadedPrograms'[frame.name].FragmentShaderFilePath = frame.fpath]_vars

\* C12: every vertex and fragment path of a LoadedPrograms entry has an entry
\* in the watch list LoadedShaders, in every reachable state.
C12_RegistryPathsWatched ==
    \A n \in DOMAIN LoadedPrograms :
        /\ Watched(LoadedPrograms[n].VertexShaderFilePath)
        /\ Watched(LoadedPrograms[n].FragmentShaderFilePath)

\* C12 witness: both programs are registered, a later registration failed, and
\* the three paths in use are watched
C12_Witness ==
    /\ pc = "idle"
    /\ ret = "err"
    /\ DOMAIN LoadedPrograms = Names
    /\ Len(LoadedShaders) = 3

\* no path has two entries in the list
NoDuplicatePath(shaders) ==
    \A i, j \in 1..Len(shaders) : shaders[i].FilePath = shaders[j].FilePath => i = j

\* LoadShader is at work on a path that is on the watch list
LoadingWatchedPath ==
    \/ pc \in {"loadV", "statV"} /\ Watched(frame.vpath)
    \/ pc \in {"loadF", "statF"} /\ Watched(frame.fpath)

\* C13: the watch list never holds a path twice, and a LoadShader of a path
\* that is watched already leaves the watch list, stored times included, as it is.
C13_WatchListDeduplicated ==
    [][/\ NoDuplicatePath(LoadedShaders')
       /\ LoadingWatchedPath => LoadedShaders' = LoadedShaders]_vars

\* C13 witness: a hot reload has loaded both watched files of p1 again after fa
\* was saved, and the list still has its two entries
C13_Witness ==
    /\ pollStatus = "returned"
    /\ outcome["p1"] = "ok"
    /\ Len(LoadedShaders) = 2
    /\ fs["fa"].mod = 2

\* the paths of the list, in list order, that the predicate holds for
RECURSIVE PathsWhere(_, _)
PathsWhere(shaders, d) ==
    IF shaders = <<>> THEN <<>>
    ELSE (IF d[Head(shaders).FilePath] THEN <<Head(shaders).FilePath>> ELSE <<>>)
         \o PathsWhere(Tail(shaders), d)

\* C14: the result of a scan is the list of the watched paths whose modification
\* time changed, each once, in the order of the watch list (the order in which
\* the paths were first loaded), whatever the previous scan returned.
C14_ResultInRegistrationOrder ==
    [][ScanCompleted => changedShaderFiles' = PathsWhere(LoadedShaders, dirty)]_vars

\* C14 witness: a poll reported two changed files, the one loaded first in front
C14_Witness ==
    /\ pollStatus = "returned"
    /\ changedShaderFiles = <<"v", "fa">>
    /\ LoadedShaders[1].FilePath = "v"

\* a watched file is gone from disk
WatchedFileMissing == \E p \in Paths : Watched(p) /\ ~fs[p].exists

\* C15: a poll that cannot stat a watched file panics in the scan: no program
\* is rebuilt, no GL object is created or deleted and no registry entry changes,
\* also when the scan had found changed files before the missing one.
C15_StatFailureAbortsPoll ==
    [][(HotloadShaders /\ WatchedFileMissing) =>
          /\ pc' = "halted"
          /\ haltCause' = "scanstat"
          /\ \A n \in Names : attempts'[n] = 0
          /\ UNCHANGED <<LoadedPrograms, glPrograms, glShaders>>]_vars

\* C15 witness: the scan stored the new time of the changed v and then panicked
\* at the missing fa; p1, which uses both, still has its first handle
C15_Witness ==
    /\ pc = "halted"
    /\ haltCause = "scanstat"
    /\ "p1" \in DOMAIN LoadedPrograms
    /\ LoadedPrograms["p1"].ID = 1
    /\ LoadedShaders[1] = [FilePath |-> "v", LastModified |-> 2]
    /\ fs["v"].kind = "good"
    /\ ~fs["fa"].exists
    /\ Len(glPrograms) = 1

\* some program object is deleted in this step
DeletesAProgram ==
    \E id \in 1..Len(glPrograms) :
        glPrograms[id].status # "deleted" /\ glPrograms'[id].status = "deleted"

\* C16: a program object is deleted only as the old handle of a rebuild whose
\* new program is linked and already stored in the registry entry; and an id is
\* stored in the registry only when that program is linked.
C16_LinkThenStoreThenDelete ==
    [][/\ DeletesAProgram =>
             /\ frame.caller = "reload"
             /\ outcome[frame.name] = "ok"
             /\ glPrograms'[frame.oldID].status = "deleted"
             /\ frame.oldID # frame.programID
             /\ LoadedPrograms[frame.name].ID = frame.programID
             /\ Alive(frame.programID)
       /\ LoadedPrograms' # LoadedPrograms =>
             /\ Alive(frame.programID)
             /\ LoadedPrograms'[frame.name].ID = frame.programID]_vars

\* C16 witness: the new handle is stored and the old program is still there
C16_Witness ==
    /\ pc = "deleteOld"
    /\ Alive(frame.oldID)
    /\ Alive(frame.programID)
    /\ LoadedPrograms[frame.name].ID = frame.programID

\* C18 (as claimed): when the link attempt of MakeProgram is over, with or
\* without success, the vertex and the fragment shader object are deleted.
C18_ShadersDeletedAfterLink ==
    [][/\ (LinkStep /\ pc' # "commit") =>
             (frame.vsh \notin glShaders' /\ frame.fsh \notin glShaders')
       /\ CommitStep =>
             (frame.vsh \notin glShaders' /\ frame.fsh \notin glShaders')]_vars

\* a source file of program n changed since it was last stat'ed
SourceModified(n) ==
    \/ dirty[LoadedPrograms[n].VertexShaderFilePath]
    \/ dirty[LoadedPrograms[n].FragmentShaderFilePath]

\* C17 (as claimed): a program whose last rebuild failed is rebuilt again in no
\* poll whose scan finds none of its two files modified, at most once in a poll,
\* and in the first poll whose scan finds one of them modified.
C17_RetryOnNextModification ==
    [][\A n \in failed' \cap DOMAIN LoadedPrograms :
          /\ attempts'[n] <= 1
          /\ (ScanCompleted /\ n \in failed) =>
                (NeedsRebuilding(LoadedPrograms[n], changedShaderFiles') <=> SourceModified(n))
          /\ (PollReturnedOrLinkHalt' /\ NeedsRebuilding(LoadedPrograms[n], changedShaderFiles'))
                => attempts'[n] = 1]_vars

\* C19: a sprite set up with a speed of at least one tick, at least one frame,
\* a tick count of zero and a current frame among its frames keeps, over any
\* number of Update calls, its tick count in 0..AnimationSpeed-1 and its current
\* frame an index of AnimationFrames.
C19_SpriteCountersInRange ==
    /\ 0 <= sprite.TickCount
    /\ sprite.TickCount < sprite.AnimationSpeed
    /\ 0 <= sprite.CurrentFrame
    /\ sprite.CurrentFrame < Len(sprite.AnimationFrames)

\* C19 witness: Update has counted up to the last tick of the last frame of the
\* longest and slowest animation
C19_Witness ==
    /\ sprite.AnimationSpeed = MaxSpeed
    /\ Len(sprite.AnimationFrames) = MaxFrames
    /\ sprite.TickCount = MaxSpeed - 1
    /\ sprite.CurrentFrame = MaxFrames - 1

\* C20: the pointer MakeProgram returned to the host for a name is the address
\* of the record the registry holds for that name, after first and later
\* registrations and after any polls, so what the holder reads through it is
\* the current handle, a linked program that is not deleted.
C20_HeldPointerIsRegistryRecord ==
    \A n \in Names :
        held[n] # 0 =>
            /\ n \in DOMAIN LoadedPrograms
            /\ held[n] = LoadedPrograms[n].ptr
            /\ Alive(LoadedPrograms[n].ID)

\* C20 witness: the host holds the pointers of both programs, p1 was registered
\* twice and a poll has then rebuilt it
C20_Witness ==
    /\ pollStatus = "returned"
    /\ outcome["p1"] = "ok"
    /\ held["p1"] # 0
    /\ held["p2"] # 0
    /\ held["p1"] # held["p2"]
    /\ LoadedPrograms["p1"].ID > 3

\* the program object is the handle some registry entry holds
CurrentHandle(id) == \E n \in DOMAIN LoadedPrograms : LoadedPrograms[n].ID = id

\* C21 (as claimed): when no MakeProgram call and no poll is under way, every
\* program object that is linked and not deleted is the handle of a registry entry.
C21_NoProgramLeak ==
    pc = "idle" =>
        \A id \in 1..Len(glPrograms) : Alive(id) => CurrentHandle(id)

\* the step in which LoadShader returns the compile error of MakeShader
CompileErrorReturn ==
    /\ LoadShaderRead
    /\ \/ pc = "loadV" /\ fs[frame.vpath].exists /\ fs[frame.vpath].kind = "compileErr"
       \/ pc = "loadF" /\ fs[frame.fpath].exists /\ fs[frame.fpath].kind = "compileErr"

\* C23 (as claimed): when MakeProgram returns a compile error, the shader that
\* failed to compile and the vertex shader compiled before it in the same call
\* are deleted: the shader objects left are those alive before the call.
C23_NoShaderLeakOnCompileError ==
    [][CompileErrorReturn => glShaders' = glShaders \ {frame.vsh}]_vars

\* the editor is done and a poll has returned after its last save: every file
\* of every registered program is on disk with text that compiles and links,
\* unchanged since the scan, and no rebuild of the poll failed
PollCompletedAfterLastWrite ==
    /\ pollStatus = "returned"
    /\ \A p \in Paths : ~dirty[p]
    /\ \A n \in DOMAIN LoadedPrograms : SourcesGood(n) /\ outcome[n] \notin Failures

\* C22 (as claimed): once a poll has completed without failure after the last
\* save, the handle of every registered program was built from the text its two
\* source files hold, whenever the saves fell.
C22_NoEditLost ==
    PollCompletedAfterLastWrite => \A n \in DOMAIN LoadedPrograms : upToDate[n]

====
